---- MODULE Spec2Model ----
(***************************************************************************)
(* Model of the Aselo child-helpline backend: the autofill request of      *)
(* ChatController.extract_form_data and the extraction pipeline of         *)
(* LLMService.extract_form_data (format, prompt, invoke, sanitize, parse,  *)
(* normalize, infer, assemble), over the JSON conversation store (Spec);   *)
(* the chat turns, summary and extraction requests of concurrent handlers  *)
(* over that store (ChatSpec); the form submissions (FormSpec).            *)
(*                                                                         *)
(* JSON / Python values are tagged records [t, v]:                         *)
(*   "str"  v = the string           "num"  v = the text str() prints      *)
(*   "bool" v = "True" / "False"     "null" v = ""       (Python None)     *)
(*   "list" v = a sequence of values "obj"  v = a function key -> value    *)
(*   "record" v = the fields of an AutoFillResponse                        *)
(* A raised exception is the value [t |-> "exc", v |-> <its class>].       *)
(***************************************************************************)
EXTENDS Integers, Sequences, FiniteSets, TLC

VARIABLES
    client,             \* LLMService.client: "configured" or "none"
    db_ok,              \* the database file can be read and decoded
    conversations,      \* db_data["conversations"]: session id -> messages, or NoConversation
    truncated,          \* the database file is open for writing: emptied, the new text not yet in it
    pc,                 \* position of the autofill request
    session,            \* request.sessionId
    messages,           \* conversation.messages handed to the service
    conversation_text,  \* the formatted transcript
    raw_response,       \* reply of the model
    json_str,           \* sanitized reply
    data,               \* decoded candidate
    validated,          \* result of _validate_child_data
    child,              \* result of _apply_intelligent_defaults
    svc_result,         \* what LLMService.extract_form_data returned or raised
    ctl_result,         \* what the caller of ChatController.extract_form_data received
    path,               \* "none", "success" (line 364) or "fallback" (lines 366-372)
    failure,            \* class of the exception the pipeline absorbed, or "none"
    calls,              \* number of model invocations of this request
    had_span,           \* history: the reply held a "{" with a "}" after it
    req,                \* the chat and summary requests in flight, one record per handler
    lock,               \* DatabaseService._lock: the handlers that hold it (none or one)
    form_submissions,   \* db_data["form_submissions"]: session id -> submission, or NoSubmission
    form_req            \* the form requests, one record per handler

vars == <<client, db_ok, conversations, truncated, pc, session, messages, conversation_text,
          raw_response, json_str, data, validated, child, svc_result, ctl_result,
          path, failure, calls, had_span, req, lock, form_submissions, form_req>>

storeVars == <<client, db_ok, conversations, truncated>>

\* the locals of the autofill request
pipelineVars == <<pc, session, messages, conversation_text, raw_response, json_str, data,
                  validated, child, svc_result, ctl_result, path, failure, calls, had_span>>

chatVars == <<req, lock>>

formVars == <<form_submissions, form_req>>

----------------------------------------------------------------------------
(* Bounds *)

\* longest reply of the model, in symbols of ReplyChars
MaxReplyLen == 3
\* most keys the model states in one JSON reply (all sections together)
MaxStated == 2
\* chat and summary requests handled in one run, each by its own handler
MaxRequests == 2

----------------------------------------------------------------------------
(* Values *)

Str(s)  == [t |-> "str", v |-> s]
Num(s)  == [t |-> "num", v |-> s]
Bool(s) == [t |-> "bool", v |-> s]
Null    == [t |-> "null", v |-> ""]
List(q) == [t |-> "list", v |-> q]
Obj(f)  == [t |-> "obj", v |-> f]
Exc(c)  == [t |-> "exc", v |-> c]
Record(r) == [t |-> "record", v |-> r]

EmptyMap == [k \in {} |-> Null]
EmptyObj == Obj(EmptyMap)

IsExc(x) == x.t = "exc"

\* Python truth value: None, "", 0, False, [] and {} are false
Truthy(x) ==
    CASE x.t = "str"  -> x.v # ""
      [] x.t = "num"  -> x.v # "0"
      [] x.t = "bool" -> x.v = "True"
      [] x.t = "list" -> x.v # <<>>
      [] x.t = "obj"  -> DOMAIN x.v # {}
      [] OTHER        -> FALSE

\* dict.get(key): the value, or None when the key is absent
Get(o, k) == IF k \in DOMAIN o.v THEN o.v[k] ELSE Null

\* str.strip() on the strings of the model
Strip(s) ==
    CASE s = " "          -> ""
      [] s = " 14 "       -> "14"
      [] s = " Runaway "  -> "Runaway"
      [] OTHER            -> s

\* str.lower() on the strings of the model
Lower(s) ==
    CASE s = "Male" -> "male" [] s = "Female" -> "female" [] s = "Other" -> "other"
      [] s = "Unknown" -> "unknown" [] s = "Boy" -> "boy"
      [] s = "Kingston" -> "kingston" [] s = "St. Andrew" -> "st. andrew"
      [] s = "St. Thomas" -> "st. thomas" [] s = "St. Catherine" -> "st. catherine"
      [] s = "Clarendon" -> "clarendon" [] s = "Manchester" -> "manchester"
      [] s = "St. Elizabeth" -> "st. elizabeth" [] s = "Westmoreland" -> "westmoreland"
      [] s = "Hanover" -> "hanover" [] s = "St. James" -> "st. james"
      [] s = "Trelawny" -> "trelawny" [] s = "St. Ann" -> "st. ann"
      [] s = "St. Mary" -> "st. mary" [] s = "Portland" -> "portland"
      [] s = "PORTLAND" -> "portland" [] s = "Atlantis" -> "atlantis"
      [] s = "Alternative care" -> "alternative care"
      [] s = "Group residential facility" -> "group residential facility"
      [] s = "Homeless or marginally housed" -> "homeless or marginally housed"
      [] s = "In detention" -> "in detention"
      [] s = "Living independently" -> "living independently"
      [] s = "With parent(s)" -> "with parent(s)"
      [] s = "With relatives" -> "with relatives"
      [] s = "Foster care" -> "foster care"
      [] s = "Cities" -> "cities" [] s = "Rural areas" -> "rural areas"
      [] s = "Town & semi-dense areas" -> "town & semi-dense areas"
      [] s = "Nowhere" -> "nowhere"
      [] OTHER -> s

\* str(x)
PyStr(x) ==
    CASE x.t \in {"str", "num", "bool"} -> x.v
      [] x.t = "null" -> "None"
      [] x.t = "list" -> "[...]"
      [] OTHER        -> "{...}"

----------------------------------------------------------------------------
(* Enumeration registry *)

VALID_PARISHES ==
    {"Kingston", "St. Andrew", "St. Thomas", "St. Catherine", "Clarendon",
     "Manchester", "St. Elizabeth", "Westmoreland", "Hanover", "St. James",
     "Trelawny", "St. Ann", "St. Mary", "Portland", "Unknown"}

VALID_GENDERS == {"Male", "Female", "Other", "Unknown"}

VALID_LIVING_SITUATIONS ==
    {"Alternative care", "Group residential facility",
     "Homeless or marginally housed", "In detention",
     "Living independently", "With parent(s)", "With relatives",
     "Other", "Unknown"}

VALID_REGIONS == {"Unknown", "Cities", "Rural areas", "Town & semi-dense areas"}

VALID_VULNERABLE_GROUPS ==
    {"Child in conflict with the law", "Child living in conflict zone",
     "Child living in poverty", "Child member of an ethnic, racial or religious minority",
     "Child on the move (involuntarily)", "Child on the move (voluntarily)",
     "Child with disability", "LGBTQI+/SOGIESC child",
     "Out-of-school child", "Other"}

\* the Literal types of the response model
CHILD_GENDER == {"Male", "Female", "Other", "Unknown"}

CHILD_AGE ==
    {"Unborn", "0", "01", "02", "03", "04", "05", "06", "07", "08", "09",
     "10", "11", "12", "13", "14", "15", "16", "17", "18", "19", "20",
     "21", "22", "23", "24", "25", ">25", "Unknown"}

PARISH ==
    {"Kingston", "St. Andrew", "St. Thomas", "St. Catherine", "Clarendon", "Manchester",
     "St. Elizabeth", "Westmoreland", "Hanover", "St. James", "Trelawny", "St. Ann",
     "St. Mary", "Portland", "Unknown"}

LIVING_SITUATION ==
    {"Alternative care", "Group residential facility", "Homeless or marginally housed",
     "In detention", "Living independently", "With parent(s)", "With relatives",
     "Other", "Unknown"}

VULNERABLE_GROUPS ==
    {"Child in conflict with the law", "Child living in conflict zone", "Child living in poverty",
     "Child member of an ethnic, racial or religious minority", "Child on the move (involuntarily)",
     "Child on the move (voluntarily)", "Child with disability", "LGBTQI+/SOGIESC child",
     "Out-of-school child", "Other"}

REGION == {"Unknown", "Cities", "Rural areas", "Town & semi-dense areas"}

CATEGORY_KEYS ==
    {"violence", "mental_health", "family_relationships",
     "education_and_occupation", "peer_relationships",
     "missing_children", "trafficking", "physical_health",
     "accessibility", "discrimination_and_exclusion",
     "sexuality", "disability", "non_counselling_contacts"}

\* the issue vocabulary of each category
Category ==
    [k \in CATEGORY_KEYS |->
      CASE k = "missing_children" ->
             {"Child abduction", "Lost, unaccounted for or otherwise missing child",
              "Runaway", "Unspecified/Other"}
        [] k = "violence" ->
             {"Bullying in school", "Bullying out of school", "Child labour (general)",
              "Child labour (domestic)", "Cyberbullying", "Emotional maltreatment/abuse",
              "Exposure to criminal violence", "Exposure to domestic violence",
              "Exposure to pornography",
              "Gender-based harmful traditional practices (other than FGM)",
              "Harmful traditional practices other than child marriage and FGM",
              "Inappropriate sex talk", "Indecent assault", "Neglect (emotional)",
              "Neglect (education)", "Neglect (health & nutrition)", "Neglect (physical)",
              "Neglect (or negligent treatment)",
              "Online child sexual abuse and exploitation", "Physical maltreatment/abuse",
              "Sexual violence", "Verbal maltreatment/abuse", "Unspecified/Other"}
        [] k = "trafficking" ->
             {"Child begging", "Child used for criminal activity",
              "Commercial sexual exploitation (offline)",
              "Commercial sexual exploitation (online)",
              "Labour exploitation (domestic servitude)"}
        [] k = "mental_health" ->
             {"Addictive behaviours and substance use", "Behavioural problems",
              "Concerns about the self", "Emotional distress - anger problems",
              "Emotional distress - fear and anxiety problems",
              "Emotional distress - mood problems", "Hyperactivity/attention deficit",
              "Neurodevelopmental concerns", "Problems with eating behaviour",
              "Self-esteem issues", "Self-harming behaviour", "Sleep disorders", "Stress",
              "Suicidal thoughts and suicide attempts", "Traumatic distress",
              "Wellbeing support", "Unspecified/Other"}
        [] k = "physical_health" ->
             {"COVID-19", "General medical or lifestyle concerns",
              "Medical or lifestyle information about HIV/AIDS",
              "Pregnancy and maternal care", "Sexual and reproductive health",
              "Nutrition", "Unspecified/Other"}
        [] k = "accessibility" ->
             {"Career Guidance", "Education",
              "Essential needs (food, shelter, water, clothing)", "Financial services",
              "General healthcare services", "Legal services and advice",
              "Mental health services", "Sexual health services",
              "Socio-economical services", "Unspecified/Other"}
        [] k = "discrimination_and_exclusion" ->
             {"Ethnicity/nationality", "Financial situation", "Gender",
              "Gender identity or expression and sexual orientation", "Health",
              "Philosophical or religious beliefs", "Socio-economic situation",
              "Street children", "Unspecified/Other"}
        [] k = "family_relationships" ->
             {"Adoption, fostering, and extended family placement",
              "Child in children's home", "Divorce/separation of parents",
              "Family health and wellbeing",
              "Family problems/disputes - conflict between parents/caregivers",
              "Family problems/disputes - conflict between parents/caregivers and child",
              "Family problems/disputes - conflict between child and other members of the family",
              "General family issues", "Grief/bereavement - family",
              "Left behind children", "Mental health - parental/relative",
              "Relationship with sibling(s)", "Relationship to caregiver"}
        [] k = "peer_relationships" ->
             {"Friends and friendships", "Grief/bereavement - peers",
              "Partner relationships", "Classmates/colleagues relationships",
              "Unspecified/Other"}
        [] k = "education_and_occupation" ->
             {"Academic issues", "Challenges with online schooling",
              "Child not attending school", "Child truanting from school",
              "Corporal punishment", "Homework/study tips", "Learning problems",
              "Performance anxiety", "Problems at work", "Teacher and school problems",
              "Unspecified/Other"}
        [] k = "sexuality" ->
             {"Sexual orientation and gender identity", "Sexual behaviours",
              "Unspecified/Other"}
        [] k = "disability" ->
             {"Intellectual disability", "Hearing disability", "Physical disability",
              "Visual disability"}
        [] OTHER ->
             {"Complaints about the child helpline", "Questions about the child helpline",
              "Questions about other services", "\"Thank you for your assistance\"",
              "Unspecified/Other"}]

----------------------------------------------------------------------------
(* Transcript formatter *)

\* _prepare_conversation_context: one labelled line per message, in order
PrepareConversationContext(msgs) ==
    [i \in 1..Len(msgs) |->
        [speaker |-> IF msgs[i].sender = "assistant" THEN "COUNSELOR" ELSE "CHILD",
         text    |-> msgs[i].message]]

----------------------------------------------------------------------------
(* Response sanitizer and decoder.  A reply is a sequence of symbols:      *)
(* "{" and "}", " " (whitespace), "p" (any other character outside a JSON  *)
(* object: prose, a code fence) and "J" (the members of a JSON object).    *)

ReplyChars == {"{", "}", " ", "p", "J"}

RECURSIVE StripText(_)
\* str.strip() of a reply
StripText(q) ==
    IF q = <<>> THEN q
    ELSE IF Head(q) = " " THEN StripText(Tail(q))
    ELSE IF q[Len(q)] = " " THEN StripText(SubSeq(q, 1, Len(q) - 1))
    ELSE q

\* str.find: index of the first occurrence (0-based), -1 when there is none
Find(q, c) ==
    IF \E i \in 1..Len(q) : q[i] = c
    THEN (CHOOSE i \in 1..Len(q) : q[i] = c /\ \A j \in 1..(i - 1) : q[j] # c) - 1
    ELSE -1

\* str.rfind: index of the last occurrence (0-based), -1 when there is none
RFind(q, c) ==
    IF \E i \in 1..Len(q) : q[i] = c
    THEN (CHOOSE i \in 1..Len(q) : q[i] = c /\ \A j \in (i + 1)..Len(q) : q[j] # c) - 1
    ELSE -1

\* the text holds a "{" and, after it, a "}"
HasSpan(q) == \E i, j \in 1..Len(q) : i < j /\ q[i] = "{" /\ q[j] = "}"

\* _clean_json_response without the "{}" of line 194: the text is returned as it is
CleanJsonResponseNoDefault(raw) ==
    LET cleaned   == StripText(raw)
        start_idx == Find(cleaned, "{")
        end_idx   == RFind(cleaned, "}")
    IN  IF start_idx # -1 /\ end_idx # -1 /\ end_idx > start_idx
        THEN SubSeq(cleaned, start_idx + 1, end_idx + 1)
        ELSE cleaned

\* _clean_json_response with find in the place of rfind at line 188: the span ends
\* at the first "}"
CleanJsonResponseFirstClose(raw) ==
    LET cleaned   == StripText(raw)
        start_idx == Find(cleaned, "{")
        end_idx   == Find(cleaned, "}")
    IN  IF start_idx # -1 /\ end_idx # -1 /\ end_idx > start_idx
        THEN SubSeq(cleaned, start_idx + 1, end_idx + 1)
        ELSE <<"{", "}">>

\* _clean_json_response
CleanJsonResponse(raw) ==
    LET cleaned   == StripText(raw)
        start_idx == Find(cleaned, "{")
        end_idx   == RFind(cleaned, "}")
    IN  IF start_idx # -1 /\ end_idx # -1 /\ end_idx > start_idx
        THEN SubSeq(cleaned, start_idx + 1, end_idx + 1)
        ELSE <<"{", "}">>

\* json.loads accepts the text: one object, with members or without
Decodable(js) ==
    /\ Len(js) >= 2
    /\ js[1] = "{"
    /\ js[Len(js)] = "}"
    /\ SelectSeq(SubSeq(js, 2, Len(js) - 1), LAMBDA c : c # " ") \in {<<>>, <<"J">>}

\* the decoded object has members
HasMembers(js) == \E i \in 1..Len(js) : js[i] = "J"

----------------------------------------------------------------------------
(* Field normalizer *)

\* _validate_enum_field returning the value, not the member, at line 209
ValidateEnumFieldReturnsValue(value, valid_set) ==
    IF ~Truthy(value) THEN Null
    ELSE IF value.t \in {"list", "obj"} THEN Exc("TypeError")
    ELSE IF value.t = "str" /\ value.v \in valid_set THEN value
    ELSE IF value.t # "str" THEN Exc("AttributeError")
    ELSE LET hits == {w \in valid_set : Lower(value.v) = Lower(w)}
         IN  IF hits # {} THEN value ELSE Null

\* _validate_enum_field
ValidateEnumField(value, valid_set) ==
    IF ~Truthy(value) THEN Null
    ELSE IF value.t \in {"list", "obj"} THEN Exc("TypeError")
    ELSE IF value.t = "str" /\ value.v \in valid_set THEN value
    ELSE IF value.t # "str" THEN Exc("AttributeError")
    ELSE LET hits == {w \in valid_set : Lower(value.v) = Lower(w)}
         IN  IF hits # {} THEN Str(CHOOSE w \in hits : TRUE) ELSE Null

\* _normalize_age
NormalizeAge(age) ==
    IF ~Truthy(age) THEN Null ELSE Str(Strip(PyStr(age)))

SimpleFields ==
    {"firstName", "lastName", "streetAddress", "phone1", "phone2",
     "nationality", "schoolName", "gradeLevel"}

ChildFields ==
    SimpleFields \cup {"gender", "parish", "livingSituation", "region", "age",
                       "vulnerableGroups"}

\* the same without lines 250-251: a list left empty stays in the result
ValidateVulnerableGroupsKeepsEmpty(c) ==
    IF "vulnerableGroups" \in DOMAIN c.v /\ c.v["vulnerableGroups"].t = "list"
    THEN LET q == c.v["vulnerableGroups"].v
         IN  IF \E i \in 1..Len(q) : q[i].t \in {"list", "obj"}
             THEN Exc("TypeError")
             ELSE List(SelectSeq(q, LAMBDA vg :
                            vg.t = "str" /\ vg.v \in VALID_VULNERABLE_GROUPS))
    ELSE Null

\* the list comprehension of _validate_child_data over vulnerableGroups
ValidateVulnerableGroups(c) ==
    IF "vulnerableGroups" \in DOMAIN c.v /\ c.v["vulnerableGroups"].t = "list"
    THEN LET q == c.v["vulnerableGroups"].v
         IN  IF \E i \in 1..Len(q) : q[i].t \in {"list", "obj"}
             THEN Exc("TypeError")
             ELSE LET kept == SelectSeq(q, LAMBDA vg :
                                 vg.t = "str" /\ vg.v \in VALID_VULNERABLE_GROUPS)
                  IN  IF kept = <<>> THEN Null ELSE List(kept)
    ELSE Null

\* _validate_child_data
ValidateChildData(c) ==
    IF c.t # "obj"
    THEN Exc(IF c.t \in {"str", "list"} THEN "AttributeError" ELSE "TypeError")
    ELSE
      LET all == [f \in ChildFields |->
                CASE f \in SimpleFields ->
                       IF f \in DOMAIN c.v /\ Truthy(c.v[f])
                       THEN Str(Strip(PyStr(c.v[f]))) ELSE Null
                  [] f = "gender" -> ValidateEnumField(Get(c, "gender"), VALID_GENDERS)
                  [] f = "parish" -> ValidateEnumField(Get(c, "parish"), VALID_PARISHES)
                  [] f = "livingSituation" ->
                       ValidateEnumField(Get(c, "livingSituation"), VALID_LIVING_SITUATIONS)
                  [] f = "region" -> ValidateEnumField(Get(c, "region"), VALID_REGIONS)
                  [] f = "age" -> NormalizeAge(Get(c, "age"))
                  [] OTHER -> ValidateVulnerableGroups(c)]
          raised == {f \in ChildFields : IsExc(all[f])}
          kept   == {f \in ChildFields : all[f] # Null}
      IN  IF raised # {}
          THEN all[CHOOSE f \in raised : TRUE]
          ELSE Obj([f \in kept |-> all[f]])

----------------------------------------------------------------------------
(* Inference engine *)

\* _apply_intelligent_defaults with St. Thomas put in the rural set
ApplyIntelligentDefaultsRuralStThomas(c) ==
    LET parish == Get(c, "parish")
        nat == IF ~Truthy(Get(c, "nationality")) /\ Truthy(parish)
                  /\ parish.v \in VALID_PARISHES /\ parish.v # "Unknown"
               THEN ("nationality" :> Str("Jamaican(Assumed)"))
               ELSE EmptyMap
        reg == IF ~Truthy(Get(c, "region")) /\ Truthy(parish)
               THEN IF parish.v \in {"Kingston", "St. Andrew"}
                    THEN ("region" :> Str("Cities"))
                    ELSE IF parish.v \in {"Portland", "St. Mary", "St. Elizabeth", "St. Thomas"}
                    THEN ("region" :> Str("Rural areas"))
                    ELSE IF parish.v \in VALID_PARISHES /\ parish.v # "Unknown"
                    THEN ("region" :> Str("Town & semi-dense areas"))
                    ELSE EmptyMap
               ELSE EmptyMap
    IN  Obj(nat @@ reg @@ c.v)

\* _apply_intelligent_defaults without the `not child.get("region")` test of line 265
ApplyIntelligentDefaultsOverRegion(c) ==
    LET parish == Get(c, "parish")
        nat == IF ~Truthy(Get(c, "nationality")) /\ Truthy(parish)
                  /\ parish.v \in VALID_PARISHES /\ parish.v # "Unknown"
               THEN ("nationality" :> Str("Jamaican(Assumed)"))
               ELSE EmptyMap
        reg == IF Truthy(parish)
               THEN IF parish.v \in {"Kingston", "St. Andrew"}
                    THEN ("region" :> Str("Cities"))
                    ELSE IF parish.v \in {"Portland", "St. Mary", "St. Elizabeth"}
                    THEN ("region" :> Str("Rural areas"))
                    ELSE IF parish.v \in VALID_PARISHES /\ parish.v # "Unknown"
                    THEN ("region" :> Str("Town & semi-dense areas"))
                    ELSE EmptyMap
               ELSE EmptyMap
    IN  Obj(nat @@ reg @@ c.v)

\* _apply_intelligent_defaults without the `!= "Unknown"` test of line 260
ApplyIntelligentDefaultsForUnknown(c) ==
    LET parish == Get(c, "parish")
        nat == IF ~Truthy(Get(c, "nationality")) /\ Truthy(parish)
                  /\ parish.v \in VALID_PARISHES
               THEN ("nationality" :> Str("Jamaican(Assumed)"))
               ELSE EmptyMap
        reg == IF ~Truthy(Get(c, "region")) /\ Truthy(parish)
               THEN IF parish.v \in {"Kingston", "St. Andrew"}
                    THEN ("region" :> Str("Cities"))
                    ELSE IF parish.v \in {"Portland", "St. Mary", "St. Elizabeth"}
                    THEN ("region" :> Str("Rural areas"))
                    ELSE IF parish.v \in VALID_PARISHES /\ parish.v # "Unknown"
                    THEN ("region" :> Str("Town & semi-dense areas"))
                    ELSE EmptyMap
               ELSE EmptyMap
    IN  Obj(nat @@ reg @@ c.v)

\* _apply_intelligent_defaults
ApplyIntelligentDefaults(c) ==
    LET parish == Get(c, "parish")
        nat == IF ~Truthy(Get(c, "nationality")) /\ Truthy(parish)
                  /\ parish.v \in VALID_PARISHES /\ parish.v # "Unknown"
               THEN ("nationality" :> Str("Jamaican(Assumed)"))
               ELSE EmptyMap
        reg == IF ~Truthy(Get(c, "region")) /\ Truthy(parish)
               THEN IF parish.v \in {"Kingston", "St. Andrew"}
                    THEN ("region" :> Str("Cities"))
                    ELSE IF parish.v \in {"Portland", "St. Mary", "St. Elizabeth"}
                    THEN ("region" :> Str("Rural areas"))
                    ELSE IF parish.v \in VALID_PARISHES /\ parish.v # "Unknown"
                    THEN ("region" :> Str("Town & semi-dense areas"))
                    ELSE EmptyMap
               ELSE EmptyMap
    IN  Obj(nat @@ reg @@ c.v)

----------------------------------------------------------------------------
(* Extraction orchestrator: the steps of extract_form_data after decoding *)

\* data.get(name, {})
Section(d, name) == IF name \in DOMAIN d.v THEN d.v[name] ELSE EmptyObj

\* the loop run over the keys of the reply only: no default for an omitted key
NormalizeCategoryStatedOnly(raw_category) ==
    IF raw_category.t # "obj" THEN Exc("AttributeError")
    ELSE Obj([key \in CATEGORY_KEYS \cap DOMAIN raw_category.v |->
            LET val == Get(raw_category, key)
            IN  IF val.t = "list"
                THEN LET kept == SelectSeq(val.v, LAMBDA item :
                                    item.t = "str" /\ Strip(item.v) # "")
                     IN  List([i \in 1..Len(kept) |-> Str(Strip(kept[i].v))])
                ELSE List(<<>>)])

\* the loop over CATEGORY_KEYS: every key gets a list
NormalizeCategory(raw_category) ==
    IF raw_category.t # "obj" THEN Exc("AttributeError")
    ELSE Obj([key \in CATEGORY_KEYS |->
            LET val == Get(raw_category, key)
            IN  IF val.t = "list"
                THEN LET kept == SelectSeq(val.v, LAMBDA item :
                                    item.t = "str" /\ Strip(item.v) # "")
                     IN  List([i \in 1..Len(kept) |-> Str(Strip(kept[i].v))])
                ELSE List(<<>>)])

\* the defaults of the required summary fields
SummaryDefaults(summary) ==
    IF summary.t # "obj" THEN Exc("AttributeError")
    ELSE LET cs == IF ~Truthy(Get(summary, "callSummary"))
                   THEN ("callSummary" :> Str("Conversation in progress."))
                   ELSE EmptyMap
             kc == IF Get(summary, "keepConfidential") = Null
                   THEN ("keepConfidential" :> Bool("True"))
                   ELSE EmptyMap
         IN  Obj(cs @@ kc @@ summary.v)

\* Optional[Literal[...]]
OptionalLiteral(x, literal) == x = Null \/ (x.t = "str" /\ x.v \in literal)

\* Optional[str]
OptionalStr(x) == x.t \in {"null", "str"}

\* Optional[Dict[str, Any]]
OptionalDict(x) == x.t \in {"null", "obj"}

\* the field types of AutoFillResponse, as pydantic validates them
AutoFillResponse(r) ==
    /\ \A f \in SimpleFields : OptionalStr(r[f])
    /\ OptionalLiteral(r.gender, CHILD_GENDER)
    /\ OptionalLiteral(r.age, CHILD_AGE)
    /\ OptionalLiteral(r.parish, PARISH)
    /\ OptionalLiteral(r.livingSituation, LIVING_SITUATION)
    /\ OptionalLiteral(r.region, REGION)
    /\ \/ r.vulnerableGroups = Null
       \/ /\ r.vulnerableGroups.t = "list"
          /\ \A i \in 1..Len(r.vulnerableGroups.v) :
                /\ r.vulnerableGroups.v[i].t = "str"
                /\ r.vulnerableGroups.v[i].v \in VULNERABLE_GROUPS
    /\ \/ r.suggested_categories = Null
       \/ /\ r.suggested_categories.t = "obj"
          /\ \A k \in DOMAIN r.suggested_categories.v :
                /\ r.suggested_categories.v[k].t = "list"
                /\ \A i \in 1..Len(r.suggested_categories.v[k].v) :
                      r.suggested_categories.v[k].v[i].t = "str"
    /\ OptionalDict(r.summary)
    /\ OptionalDict(r.metadata)

ResponseFields == ChildFields \cup {"suggested_categories", "summary", "metadata"}

\* the response built without validation from the child section of the reply
BuildResponseUnchecked(c, category, summary, metadata) ==
    Record([f \in ResponseFields |->
                CASE f = "suggested_categories" -> category
                  [] f = "summary" -> summary
                  [] f = "metadata" -> metadata
                  [] OTHER -> Get(Section(data, "child"), f)])

\* AutoFillResponse(...) built from the validated child, the categories and the summary
BuildResponse(c, category, summary, metadata) ==
    LET r == [f \in ResponseFields |->
                CASE f = "suggested_categories" -> category
                  [] f = "summary" -> summary
                  [] f = "metadata" -> metadata
                  [] OTHER -> Get(c, f)]
    IN  IF AutoFillResponse(r) THEN Record(r) ELSE Exc("ValidationError")

\* lines 315-361: categories, summary defaults, the response
Assemble(d, c) ==
    LET summary0 == Section(d, "summary")
        category == NormalizeCategory(Section(d, "category"))
        summary  == SummaryDefaults(summary0)
    IN  IF IsExc(category) THEN category
        ELSE IF IsExc(summary) THEN summary
        ELSE BuildResponse(c, category, summary, Section(d, "metadata"))

\* a fallback that reuses the placeholder of the success path
FallbackRecordInProgress ==
    Record([f \in ResponseFields |->
        IF f = "summary"
        THEN Obj("callSummary" :> Str("Conversation in progress."))
        ELSE Null])

\* AutoFillResponse(summary={"callSummary": ...}) of the two except clauses
FallbackRecord ==
    Record([f \in ResponseFields |->
        IF f = "summary"
        THEN Obj("callSummary" :> Str("Unable to auto-fill. Please enter manually."))
        ELSE Null])

\* extract_form_data with the except json.JSONDecodeError clause only
OnExceptionJsonOnly(e) ==
    IF e = "JSONDecodeError"
    THEN [kind |-> "return", value |-> FallbackRecord]
    ELSE [kind |-> "raise", value |-> Exc(e)]

\* the except clauses of extract_form_data: what the operation does with exception e
OnException(e) == [kind |-> "return", value |-> FallbackRecord]

----------------------------------------------------------------------------
(* Inputs: the replies of the model and the candidates they decode to *)

ReplyTexts == UNION {[1..n -> ReplyChars] : n \in 0..MaxReplyLen}

\* a key the reply may state: a key of a section, or (key "*") the section itself
Slots ==
    {[sec |-> "child", key |-> f] : f \in ChildFields}
    \cup {[sec |-> "category", key |-> k] : k \in CATEGORY_KEYS}
    \cup {[sec |-> "summary", key |-> k] :
            k \in {"callSummary", "keepConfidential", "summaryAccuracy",
                   "summaryFeedback", "otherLocation", "locationOfIssue"}}
    \cup {[sec |-> x, key |-> "*"] : x \in {"child", "category", "summary", "metadata"}}

\* the values tried for a key
SlotValues(s) ==
    CASE s.key = "*" ->
           CASE s.sec = "category" -> {Null, List(<<>>)}
             [] s.sec = "metadata" -> {Null, Str("n/a"), Obj("source" :> Str("chat"))}
             [] OTHER -> {Null, Str("n/a")}
      [] s.sec = "category" ->
           {List(<<Str(CHOOSE w \in Category[s.key] : TRUE), Str("Not an issue"),
                   Str(" "), Num("5"), Str(" Runaway ")>>),
            Str("n/a")}
           \cup (IF s.key = "violence" THEN {List(<<Str(" "), Num("5")>>)} ELSE {})
      [] s.sec = "summary" ->
           CASE s.key = "callSummary" ->
                  {Str("Child reports bullying at school."), Str(""), Str(" "), Num("5")}
             [] s.key = "keepConfidential" -> {Bool("False"), Null}
             [] s.key = "summaryAccuracy" -> {Str("Very accurate")}
             [] s.key = "summaryFeedback" -> {Str("Looks right")}
             [] s.key = "otherLocation" -> {Str("Market")}
             [] OTHER -> {Str("Online")}
      [] s.key = "firstName" -> {Str("Ana"), Num("5")}
      [] s.key = "nationality" -> {Str("Jamaican"), Str(" ")}
      [] s.key = "gender" -> {Str("Male"), Str("female"), Str("Boy"), Num("5")}
      [] s.key = "parish" ->
           {Str(w) : w \in VALID_PARISHES} \cup {Str("PORTLAND"), Str("Atlantis")}
      [] s.key = "region" -> {Str("Cities"), Str("rural areas"), Str("Nowhere"), Str("Unknown")}
      [] s.key = "livingSituation" -> {Str("With relatives"), Str("Foster care")}
      [] s.key = "age" ->
           {Str("07"), Str("7"), Str("0"), Str("00"), Str("26"), Str("Unborn"),
            Str(" 14 "), Str("seven"), Num("7"), Num("0"), Num("30")}
      [] s.key = "vulnerableGroups" ->
           {List(<<Str("Other"), Str("bogus"), Str("Child with disability")>>),
            List(<<Str("bogus")>>), List(<<List(<<>>)>>), Str("Other")}
      [] OTHER -> {Str("x")}

\* a section is stated as a whole or key by key, not both
Consistent(S) ==
    \A s \in S : s.key = "*" => \A u \in S : u.sec = s.sec => u = s

RECURSIVE SlotSets(_)
\* the consistent sets of at most k keys
SlotSets(k) ==
    IF k = 0 THEN {{}}
    ELSE LET P == SlotSets(k - 1)
         IN  P \cup UNION {{S \cup {x} : x \in {y \in Slots : Consistent(S \cup {y})}} :
                             S \in P}

RECURSIVE Assignments(_)
\* every choice of a value for each key of S
Assignments(S) ==
    IF S = {} THEN {EmptyMap}
    ELSE LET s == CHOOSE x \in S : TRUE
         IN  {(s :> val) @@ g : g \in Assignments(S \ {s}), val \in SlotValues(s)}

\* the JSON object a choice of values stands for
CandidateOf(g) ==
    Obj([x \in {s.sec : s \in DOMAIN g} |->
            IF [sec |-> x, key |-> "*"] \in DOMAIN g
            THEN g[[sec |-> x, key |-> "*"]]
            ELSE Obj([k \in {s.key : s \in {u \in DOMAIN g : u.sec = x}} |->
                        g[[sec |-> x, key |-> k]]])])

\* the sets of keys a reply may state
StatedKeys == SlotSets(MaxStated)

\* replies that state every subject field, every category and the summary with one
\* valid value each: the echo of a transcript with one clearly stated value per field
CompleteReplies ==
    {Obj(("child" :> Obj([f \in ChildFields |->
                CASE f = "gender" -> Str("Female")
                  [] f = "age" -> Str(age)
                  [] f = "parish" -> Str(parish)
                  [] f = "region" -> Str(region)
                  [] f = "livingSituation" -> Str("With relatives")
                  [] f = "nationality" -> Str("Haitian")
                  [] f = "vulnerableGroups" -> List(<<Str("Out-of-school child")>>)
                  [] OTHER -> Str("x")]))
         @@ ("category" :> Obj([k \in CATEGORY_KEYS |->
                List(<<Str(CHOOSE w \in Category[k] : TRUE)>>)]))
         @@ ("summary" :> Obj(("callSummary" :> Str("Child reports bullying at school."))
                              @@ ("keepConfidential" :> Bool("False"))
                              @@ ("locationOfIssue" :> Str("Online"))))) :
        age \in {"00", "07", "25", "Unborn"},
        parish \in {"Kingston", "Portland", "St. Thomas", "Unknown"},
        region \in {"Cities", "Rural areas"}}

Sessions == {"s1", "s2"}

\* db_data["conversations"].get(session_id) is None: no message list at all
NoConversation == <<[id |-> "none", sender |-> "none", message |-> "none"]>>

\* what the store may hold for a session: nothing, no message, one chat turn
StoredConversations ==
    {NoConversation,
     <<>>,
     <<[id |-> "m1", sender |-> "user", message |-> "hello"],
       [id |-> "m2", sender |-> "bot", message |-> "hi"]>>}

----------------------------------------------------------------------------
(* Chat turn and summary: the model invocation and what each layer does    *)
(* with its outcome                                                        *)

\* the handlers that may be in flight together
Requests == 1..MaxRequests

\* what the completion call of _make_request gives: it raises ("transport": a
\* transport error or a timeout, line 97), returns no choice or a choice without
\* message ("no_choices", line 90), or a message with content
NoCompletion == [kind |-> "none", content |-> Null]

Completions ==
    {[kind |-> k, content |-> Null] :
        k \in {"transport", "no_choices"}}
    \cup {[kind |-> "content", content |-> c] :
            c \in {Null, Str(""), Str(" "), Str("I hear you.")}}

\* _make_request: LLMException without a client; inside the try every exception,
\* the LLMException of line 91 and the TypeError of len(None) at line 94 included,
\* is raised again as LLMException; otherwise the content
MakeRequest(cl, completion) ==
    IF cl = "none" THEN Exc("LLMException")
    ELSE CASE completion.kind = "transport" -> Exc("LLMException")
           [] completion.kind = "no_choices" -> Exc("LLMException")
           [] OTHER -> IF completion.content = Null
                       THEN Exc("LLMException")
                       ELSE completion.content

\* generate_chat_response: no try; the reply stripped
GenerateChatResponse(cl, completion) ==
    LET response == MakeRequest(cl, completion)
    IN  IF IsExc(response) THEN response ELSE Str(Strip(response.v))

SummaryPlaceholder == "Unable to generate summary. Please review conversation manually."

\* LLMService.generate_summary: the reply stripped; any exception gives the placeholder
GenerateSummary(cl, completion) ==
    LET summary == MakeRequest(cl, completion)
    IN  IF IsExc(summary) THEN Str(SummaryPlaceholder) ELSE Str(Strip(summary.v))

\* the except clauses of ChatController.process_chat_message
ProcessChatRaise(e) ==
    IF e \in {"LLMException", "DatabaseException"} THEN Exc(e) ELSE Exc("DatabaseException")

\* the except clauses of ChatController.generate_summary
SummaryRaise(e) ==
    IF e \in {"SessionNotFoundException", "LLMException", "DatabaseException"}
    THEN Exc(e) ELSE Exc("DatabaseException")

ChatResponse(text) == [t |-> "ChatResponse", v |-> text]

SummaryResponse(text) == [t |-> "SummaryResponse", v |-> text]

\* the texts a child sends
ChatTexts == {"hello"}

\* the record LLMService.extract_form_data returns for the reply "{}"
EmptyReplyRecord ==
    Assemble(EmptyObj, ApplyIntelligentDefaults(ValidateChildData(Section(EmptyObj, "child"))))

\* what LLMService.extract_form_data returns to the controller: the fallback
\* record (always, without a client) or the record of a reply
ExtractionOutcomes(cl) ==
    IF cl = "none" THEN {FallbackRecord} ELSE {FallbackRecord, EmptyReplyRecord}

\* a handler that has no request
IdleRequest ==
    [op |-> "none", pc |-> "idle", sid |-> "", message |-> "", messages |-> <<>>,
     db_data |-> [s \in Sessions |-> NoConversation], completion |-> NoCompletion,
     text |-> "", result |-> Null]

----------------------------------------------------------------------------
(* The autofill request *)

----------------------------------------------------------------------------
(* Form submissions *)

\* the FormData objects a request can carry: child, category and summary given
\* (the request model rejects any other body before the controller is called)
FormDatas ==
    {[child |-> Obj("firstName" :> Str(n)),
      category |-> EmptyObj,
      summary |-> Obj("callSummary" :> Str("Child reports bullying at school.")),
      additional_fields |-> a] :
        n \in {"Ann", "Ben"}, a \in {EmptyObj, Obj("note" :> Str("x"))}}

\* _is_valid_email and _is_valid_phone on the strings of the model
IsValidEmail(e) == e \in {"ann@example.org"}
IsValidPhone(p) == p \in {"876-555-0100"}

\* _validate_form_data: the attributes are read in the order of the list of
\* lines 108-115; reading an attribute the object does not have raises
\* AttributeError
ValidateFormData(fd) ==
    LET attrs == <<"name", "email", "phone", "address", "notes", "additional_fields">>
    IN  IF \E i \in 1..Len(attrs) : attrs[i] \notin DOMAIN fd
        THEN Exc("AttributeError")
        ELSE IF \A i \in 1..Len(attrs) : ~Truthy(fd[attrs[i]])
        THEN Exc("ValidationException")
        ELSE IF Truthy(fd.email) /\ ~IsValidEmail(fd.email.v)
        THEN Exc("ValidationException")
        ELSE IF Truthy(fd.phone) /\ ~IsValidPhone(fd.phone.v)
        THEN Exc("ValidationException")
        ELSE Null

\* the except clauses of FormController.submit_form and get_form_submission
FormRaise(e) ==
    IF e \in {"ValidationException", "DatabaseException"}
    THEN Exc(e) ELSE Exc("DatabaseException")

\* str(uuid.uuid4()): one identifier per call
SubmissionId(r) == "subm-" \o ToString(r)

FormSubmission(sid, id, fd, status) ==
    [sessionId |-> sid, submissionId |-> id, formData |-> fd, status |-> status]

\* db_data["form_submissions"].get(session_id) is None
NoSubmission == FormSubmission("", "", CHOOSE fd \in FormDatas : TRUE, "none")

FormSubmissionResponse(id) ==
    [t |-> "FormSubmissionResponse",
     v |-> [success |-> TRUE, message |-> "Form submitted successfully", submissionId |-> id]]

IdleForm ==
    [op |-> "none", pc |-> "idle", sid |-> "", result |-> Null]

Init ==
    /\ client \in {"configured", "none"}
    /\ db_ok \in BOOLEAN
    /\ conversations \in {[s \in Sessions |-> IF s = "s1" THEN o ELSE NoConversation] :
                            o \in StoredConversations}
    /\ truncated = FALSE
    /\ pc = "idle"
    /\ session = ""
    /\ messages = <<>>
    /\ conversation_text = <<>>
    /\ raw_response = <<>>
    /\ json_str = <<>>
    /\ data = Null
    /\ validated = Null
    /\ child = Null
    /\ svc_result = Null
    /\ ctl_result = Null
    /\ path = "none"
    /\ failure = "none"
    /\ calls = 0
    /\ had_span = FALSE
    /\ req = [r \in Requests |-> IdleRequest]
    /\ lock = {}
    /\ form_submissions = [s \in Sessions |-> NoSubmission]
    /\ form_req = [r \in Requests |-> IdleForm]

\* the controller with its last except clause only
ControllerRaiseGeneric(e) == Exc("DatabaseException")

\* the except clauses of ChatController.extract_form_data
ControllerRaise(e) ==
    IF e \in {"SessionNotFoundException", "LLMException", "DatabaseException"}
    THEN Exc(e) ELSE Exc("DatabaseException")

\* the service leaves its try block with exception e; the controller passes the outcome on
Absorb(e) ==
    LET out == OnException(e)
    IN  /\ svc_result' = IF out.kind = "return" THEN out.value ELSE Exc(e)
        /\ ctl_result' = IF out.kind = "return" THEN out.value ELSE ControllerRaise(e)
        /\ path' = IF out.kind = "return" THEN "fallback" ELSE "none"
        /\ failure' = e
        /\ pc' = "done"

\* _read_db raises: the file is missing, or its text does not decode (also the
\* text of a file that another handler has opened for writing and not yet filled)
ReadFails == ~db_ok \/ truncated

\* ChatController.extract_form_data up to the call of the service
AutofillRequest(sid) ==
    /\ pc = "idle"
    /\ session' = sid
    /\ IF ReadFails
       THEN /\ ctl_result' = ControllerRaise("DatabaseException")
            /\ pc' = "done"
            /\ UNCHANGED messages
       ELSE IF conversations[sid] = NoConversation \/ conversations[sid] = <<>>
       THEN /\ ctl_result' = ControllerRaise("SessionNotFoundException")
            /\ pc' = "done"
            /\ UNCHANGED messages
       ELSE /\ messages' = conversations[sid]
            /\ pc' = "format"
            /\ UNCHANGED ctl_result
    /\ UNCHANGED <<storeVars, chatVars, formVars, conversation_text, raw_response, json_str, data, validated,
                   child, svc_result, path, failure, calls, had_span>>

\* stages 1 and 2: the transcript and the prompt
Format ==
    /\ pc = "format"
    /\ conversation_text' = PrepareConversationContext(messages)
    /\ pc' = "invoke"
    /\ UNCHANGED <<storeVars, chatVars, formVars, session, messages, raw_response, json_str, data, validated,
                   child, svc_result, ctl_result, path, failure, calls, had_span>>

\* _make_request without a client
InvokeNoClient ==
    /\ pc = "invoke"
    /\ client = "none"
    /\ Absorb("LLMException")
    /\ UNCHANGED <<storeVars, chatVars, formVars, session, messages, conversation_text, raw_response, json_str,
                   data, validated, child, calls, had_span>>

\* extract_form_data calling _make_request again after a failed call
InvokeFailsRetry ==
    /\ pc = "invoke"
    /\ client = "configured"
    /\ calls < 2
    /\ calls' = calls + 1
    /\ UNCHANGED <<storeVars, chatVars, formVars, pc, session, messages, conversation_text, raw_response,
                   json_str, data, validated, child, svc_result, ctl_result, path, failure,
                   had_span>>

\* _make_request: the call fails, or the completion has no choice or no content
InvokeFails ==
    /\ pc = "invoke"
    /\ client = "configured"
    /\ \E cause \in {"transport", "timeout", "no_choices", "no_content"} :
          /\ calls' = calls + 1
          /\ Absorb("LLMException")
    /\ UNCHANGED <<storeVars, chatVars, formVars, session, messages, conversation_text, raw_response, json_str,
                   data, validated, child, had_span>>

\* _make_request: the model replies
InvokeReplies ==
    /\ pc = "invoke"
    /\ client = "configured"
    /\ \E text \in ReplyTexts : raw_response' = text
    /\ calls' = calls + 1
    /\ pc' = "sanitize"
    /\ UNCHANGED <<storeVars, chatVars, formVars, session, messages, conversation_text, json_str, data,
                   validated, child, svc_result, ctl_result, path, failure, had_span>>

\* stage 4.  The raw reply is not read again after this step and is dropped from
\* the state.
Sanitize ==
    /\ pc = "sanitize"
    /\ json_str' = CleanJsonResponse(raw_response)
    /\ had_span' = HasSpan(StripText(raw_response))
    /\ raw_response' = <<>>
    /\ pc' = "parse"
    /\ UNCHANGED <<storeVars, chatVars, formVars, session, messages, conversation_text, data,
                   validated, child, svc_result, ctl_result, path, failure, calls>>

\* stage 5: json.loads raises
ParseFails ==
    /\ pc = "parse"
    /\ ~Decodable(json_str)
    /\ Absorb("JSONDecodeError")
    /\ UNCHANGED <<storeVars, chatVars, formVars, session, messages, conversation_text, raw_response, json_str,
                   data, validated, child, calls, had_span>>

\* stage 5: json.loads returns the object.  The two texts are not read again
\* after this step and are dropped from the state.
Parse ==
    /\ pc = "parse"
    /\ Decodable(json_str)
    /\ IF HasMembers(json_str)
       THEN \/ \E S \in StatedKeys : \E g \in Assignments(S) : data' = CandidateOf(g)
            \/ data' \in CompleteReplies
       ELSE data' = EmptyObj
    /\ raw_response' = <<>>
    /\ json_str' = <<>>
    /\ pc' = "validate"
    /\ UNCHANGED <<storeVars, chatVars, formVars, session, messages, conversation_text,
                   validated, child, svc_result, ctl_result, path, failure, calls, had_span>>

\* stage 6: the subject fields
Normalize ==
    /\ pc = "validate"
    /\ LET r == ValidateChildData(Section(data, "child"))
       IN  IF IsExc(r)
           THEN /\ Absorb(r.v)
                /\ UNCHANGED validated
           ELSE /\ validated' = r
                /\ pc' = "infer"
                /\ UNCHANGED <<svc_result, ctl_result, path, failure>>
    /\ UNCHANGED <<storeVars, chatVars, formVars, session, messages, conversation_text, raw_response, json_str,
                   data, child, calls, had_span>>

\* stage 7
Infer ==
    /\ pc = "infer"
    /\ child' = ApplyIntelligentDefaults(validated)
    /\ pc' = "assemble"
    /\ UNCHANGED <<storeVars, chatVars, formVars, session, messages, conversation_text, raw_response, json_str,
                   data, validated, svc_result, ctl_result, path, failure, calls, had_span>>

\* stage 8: categories, summary and the response; the controller returns it
AssembleResponse ==
    /\ pc = "assemble"
    /\ LET r == Assemble(data, child)
       IN  IF IsExc(r)
           THEN Absorb(r.v)
           ELSE /\ svc_result' = r
                /\ ctl_result' = r
                /\ path' = "success"
                /\ pc' = "done"
                /\ UNCHANGED failure
    /\ UNCHANGED <<storeVars, chatVars, formVars, session, messages, conversation_text, raw_response, json_str,
                   data, validated, child, calls, had_span>>

Next ==
    \/ \E sid \in Sessions : AutofillRequest(sid)
    \/ Format
    \/ InvokeNoClient
    \/ InvokeFails
    \/ InvokeReplies
    \/ Sanitize
    \/ ParseFails
    \/ Parse
    \/ Normalize
    \/ Infer
    \/ AssembleResponse

Spec == Init /\ [][Next]_vars

----------------------------------------------------------------------------
(* Chat turns and summary requests over the conversation store.  A handler *)
(* takes one step between two suspension points (await).                   *)

\* handler r ends: the caller of the controller receives res; the locals of the
\* handler (the messages read, the copy of the database) are gone
Finish(r, res) ==
    req' = [req EXCEPT ![r].pc = "done", ![r].result = res,
                       ![r].messages = <<>>, ![r].db_data = IdleRequest.db_data]

\* the messages of a stored conversation
MessagesOf(conv) == IF conv = NoConversation THEN <<>> ELSE conv

\* the handlers are numbered in the order in which their requests arrive
NextToArrive(r) ==
    /\ req[r].pc = "idle"
    /\ \A q \in Requests : q < r => req[q].pc # "idle"

\* handler r starts operation op on session sid and ends at once with res
StartAndFinish(r, op, sid, msg, res) ==
    req' = [req EXCEPT ![r] = [IdleRequest EXCEPT !.op = op, !.pc = "done", !.sid = sid,
                                                  !.message = msg, !.result = res]]

\* handler r starts operation op on session sid with the messages read
Start(r, op, sid, msg, next, msgs) ==
    req' = [req EXCEPT ![r] = [IdleRequest EXCEPT !.op = op, !.pc = next, !.sid = sid,
                                                  !.message = msg, !.messages = msgs]]

\* a caller sends a chat message: process_chat_message, lines 38-56, with
\* get_conversation (no lock) and the messages read
ProcessChatMessage(r, sid, msg) ==
    /\ NextToArrive(r)
    /\ IF ReadFails
       THEN StartAndFinish(r, "chat", sid, msg, ProcessChatRaise("DatabaseException"))
       ELSE Start(r, "chat", sid, msg, "lock_user", MessagesOf(conversations[sid]))
    /\ UNCHANGED <<storeVars, lock, pipelineVars, formVars>>

\* a caller asks for a summary: ChatController.generate_summary, lines 163-170
SummaryRequest(r, sid) ==
    /\ NextToArrive(r)
    /\ IF ReadFails
       THEN StartAndFinish(r, "summary", sid, "", SummaryRaise("DatabaseException"))
       ELSE IF MessagesOf(conversations[sid]) = <<>>
       THEN StartAndFinish(r, "summary", sid, "", SummaryRaise("SessionNotFoundException"))
       ELSE Start(r, "summary", sid, "", "invoke", conversations[sid])
    /\ UNCHANGED <<storeVars, lock, pipelineVars, formVars>>

\* add_message_to_conversation without the lock of line 103
AddMessageReadNoLock(r) ==
    /\ req[r].pc \in {"lock_user", "lock_bot"}
    /\ IF ReadFails
       THEN /\ Finish(r, ProcessChatRaise("DatabaseException"))
            /\ UNCHANGED lock
       ELSE /\ lock' = lock \cup {r}
            /\ req' = [req EXCEPT ![r].pc = IF req[r].pc = "lock_user"
                                            THEN "open_user" ELSE "open_bot",
                                  ![r].db_data = conversations]
    /\ UNCHANGED <<storeVars, pipelineVars, formVars>>

\* add_message_to_conversation, lines 103-104: the lock is taken and the database
\* read
AddMessageRead(r) ==
    /\ req[r].pc \in {"lock_user", "lock_bot"}
    /\ lock = {}
    /\ IF ReadFails
       THEN /\ Finish(r, ProcessChatRaise("DatabaseException"))
            /\ UNCHANGED lock
       ELSE /\ lock' = lock \cup {r}
            /\ req' = [req EXCEPT ![r].pc = IF req[r].pc = "lock_user"
                                            THEN "open_user" ELSE "open_bot",
                                  ![r].db_data = conversations]
    /\ UNCHANGED <<storeVars, pipelineVars, formVars>>

\* _write_db, line 53: the file is opened with mode "w", which empties it
AddMessageOpen(r) ==
    /\ req[r].pc \in {"open_user", "open_bot"}
    /\ r \in lock
    /\ truncated' = TRUE
    /\ req' = [req EXCEPT ![r].pc = IF req[r].pc = "open_user"
                                    THEN "write_user" ELSE "write_bot"]
    /\ UNCHANGED <<client, db_ok, conversations, lock, pipelineVars, formVars>>

\* the ChatMessage process_chat_message builds for handler r
NewMessage(r, sender, text) ==
    [id |-> "r" \o ToString(r) \o "-" \o sender, sender |-> sender, message |-> text]

\* add_message_to_conversation with line 118 replacing the messages of the
\* session by the new one
AddMessageWriteReplacing(r) ==
    /\ req[r].pc \in {"write_user", "write_bot"}
    /\ r \in lock
    /\ LET sid  == req[r].sid
           m    == IF req[r].pc = "write_user"
                   THEN NewMessage(r, "user", req[r].message)
                   ELSE NewMessage(r, "bot", req[r].text)
       IN  /\ conversations' = [req[r].db_data EXCEPT ![sid] = <<m>>]
           /\ IF req[r].pc = "write_user"
              THEN req' = [req EXCEPT ![r].pc = "invoke",
                                      ![r].db_data = IdleRequest.db_data]
              ELSE Finish(r, ChatResponse(req[r].text))
    /\ truncated' = FALSE
    /\ lock' = lock \ {r}
    /\ UNCHANGED <<client, db_ok, pipelineVars, formVars>>

\* _write_db, line 54, and the end of add_message_to_conversation: the copy read,
\* with the message appended, is written and the file closed, the lock released;
\* after the bot message the handler returns
AddMessageWrite(r) ==
    /\ req[r].pc \in {"write_user", "write_bot"}
    /\ r \in lock
    /\ LET sid  == req[r].sid
           old  == IF req[r].db_data[sid] = NoConversation
                   THEN <<>> ELSE req[r].db_data[sid]
           m    == IF req[r].pc = "write_user"
                   THEN NewMessage(r, "user", req[r].message)
                   ELSE NewMessage(r, "bot", req[r].text)
       IN  /\ conversations' = [req[r].db_data EXCEPT ![sid] = Append(old, m)]
           /\ IF req[r].pc = "write_user"
              THEN req' = [req EXCEPT ![r].pc = "invoke",
                                      ![r].db_data = IdleRequest.db_data]
              ELSE Finish(r, ChatResponse(req[r].text))
    /\ truncated' = FALSE
    /\ lock' = lock \ {r}
    /\ UNCHANGED <<client, db_ok, pipelineVars, formVars>>

\* a caller asks for the autofill: ChatController.extract_form_data, lines 89-96
ExtractFormDataRequest(r, sid) ==
    /\ NextToArrive(r)
    /\ IF ReadFails
       THEN StartAndFinish(r, "extract", sid, "", ControllerRaise("DatabaseException"))
       ELSE IF MessagesOf(conversations[sid]) = <<>>
       THEN StartAndFinish(r, "extract", sid, "", ControllerRaise("SessionNotFoundException"))
       ELSE Start(r, "extract", sid, "", "invoke", conversations[sid])
    /\ UNCHANGED <<storeVars, lock, pipelineVars, formVars>>

\* ChatController.extract_form_data, lines 99-106: the service returns a record
\* and the controller passes it on; nothing is saved (line 102 is a comment)
ExtractInvoke(r) ==
    /\ req[r].op = "extract"
    /\ req[r].pc = "invoke"
    /\ \E out \in ExtractionOutcomes(client) : Finish(r, out)
    /\ UNCHANGED <<storeVars, lock, pipelineVars, formVars>>

\* the completions the call of _make_request may give; without a client there is
\* no call (line 66)
CompletionsOf(cl) ==
    IF cl = "none" THEN {[kind |-> "no_client", content |-> Null]} ELSE Completions

\* process_chat_message taking the user message out of the store again when
\* generate_chat_response raises
ChatInvokeRollingBack(r) ==
    /\ req[r].op = "chat"
    /\ req[r].pc = "invoke"
    /\ \E completion \in CompletionsOf(client) :
          LET out == GenerateChatResponse(client, completion)
              sid == req[r].sid
              own == NewMessage(r, "user", req[r].message)
          IN  IF IsExc(out)
              THEN /\ req' = [req EXCEPT ![r].pc = "done", ![r].completion = completion,
                                         ![r].messages = <<>>,
                                         ![r].result = ProcessChatRaise(out.v)]
                   /\ conversations' =
                         [conversations EXCEPT
                             ![sid] = SelectSeq(conversations[sid], LAMBDA m : m # own)]
              ELSE /\ req' = [req EXCEPT ![r].pc = "lock_bot", ![r].completion = completion,
                                         ![r].text = out.v]
                   /\ UNCHANGED conversations
    /\ UNCHANGED <<client, db_ok, truncated, lock, pipelineVars, formVars>>

\* process_chat_message, line 59: generate_chat_response on the messages read
ChatInvoke(r) ==
    /\ req[r].op = "chat"
    /\ req[r].pc = "invoke"
    /\ \E completion \in CompletionsOf(client) :
          LET out == GenerateChatResponse(client, completion)
          IN  IF IsExc(out)
              THEN req' = [req EXCEPT ![r].pc = "done", ![r].completion = completion,
                                      ![r].messages = <<>>,
                                      ![r].result = ProcessChatRaise(out.v)]
              ELSE req' = [req EXCEPT ![r].pc = "lock_bot", ![r].completion = completion,
                                      ![r].text = out.v]
    /\ UNCHANGED <<storeVars, lock, pipelineVars, formVars>>

\* ChatController.generate_summary, lines 173-177
SummaryInvoke(r) ==
    /\ req[r].op = "summary"
    /\ req[r].pc = "invoke"
    /\ \E completion \in CompletionsOf(client) :
          LET out == GenerateSummary(client, completion)
          IN  req' = [req EXCEPT ![r].pc = "done", ![r].completion = completion,
                                 ![r].messages = <<>>,
                                 ![r].text = IF IsExc(out) THEN "" ELSE out.v,
                                 ![r].result = IF IsExc(out) THEN SummaryRaise(out.v)
                                               ELSE SummaryResponse(out.v)]
    /\ UNCHANGED <<storeVars, lock, pipelineVars, formVars>>

ChatNext ==
    \/ \E r \in Requests, sid \in Sessions, msg \in ChatTexts : ProcessChatMessage(r, sid, msg)
    \/ \E r \in Requests, sid \in Sessions : SummaryRequest(r, sid)
    \/ \E r \in Requests, sid \in Sessions : ExtractFormDataRequest(r, sid)
    \/ \E r \in Requests : ExtractInvoke(r)
    \/ \E r \in Requests : AddMessageRead(r)
    \/ \E r \in Requests : AddMessageOpen(r)
    \/ \E r \in Requests : AddMessageWrite(r)
    \/ \E r \in Requests : ChatInvoke(r)
    \/ \E r \in Requests : SummaryInvoke(r)

ChatSpec == Init /\ [][ChatNext]_vars

----------------------------------------------------------------------------
(* Form requests.  A handler is one step: the requests of this part are taken *)
(* one after the other.                                                       *)

\* submit_form_endpoint and FormController.submit_form: the validation, the
\* submission built, save_form_submission (lines 130-140 of db_service.py, under
\* the lock), the response
SubmitForm(r, sid, fd) ==
    /\ form_req[r].pc = "idle"
    /\ lock = {}
    /\ LET v == ValidateFormData(fd)
       IN  IF IsExc(v)
           THEN /\ form_req' = [form_req EXCEPT ![r] =
                       [op |-> "submit", pc |-> "done", sid |-> sid, result |-> FormRaise(v.v)]]
                /\ UNCHANGED form_submissions
           ELSE IF ReadFails
           THEN /\ form_req' = [form_req EXCEPT ![r] =
                       [op |-> "submit", pc |-> "done", sid |-> sid,
                        result |-> FormRaise("DatabaseException")]]
                /\ UNCHANGED form_submissions
           ELSE /\ form_submissions' =
                      [form_submissions EXCEPT
                          ![sid] = FormSubmission(sid, SubmissionId(r), fd, "submitted")]
                /\ form_req' = [form_req EXCEPT ![r] =
                       [op |-> "submit", pc |-> "done", sid |-> sid,
                        result |-> FormSubmissionResponse(SubmissionId(r))]]
    /\ UNCHANGED <<storeVars, chatVars, pipelineVars>>

\* get_form_submission_endpoint and FormController.get_form_submission
GetFormSubmission(r, sid) ==
    /\ form_req[r].pc = "idle"
    /\ form_req' = [form_req EXCEPT ![r] =
            [op |-> "get", pc |-> "done", sid |-> sid,
             result |-> IF ReadFails THEN FormRaise("DatabaseException")
                        ELSE IF form_submissions[sid].status = "none"
                        THEN FormRaise("ValidationException")
                        ELSE [t |-> "FormSubmission", v |-> form_submissions[sid]]]]
    /\ UNCHANGED <<storeVars, chatVars, pipelineVars, form_submissions>>

FormNext ==
    \/ \E r \in Requests, sid \in Sessions, fd \in FormDatas : SubmitForm(r, sid, fd)
    \/ \E r \in Requests, sid \in Sessions : GetFormSubmission(r, sid)

FormSpec == Init /\ [][FormNext]_vars

----------------------------------------------------------------------------
(* Properties *)

\* the service was called: the controller found messages to hand over
ServiceCalled == messages # <<>>

\* the child section of the reply, when the reply decoded to an object
StatedChild == Section(data, "child")

\* C1: whatever the model invocation gives (no credentials, a failed call, no
\* content, undecodable JSON, sections of a wrong type), LLMService.extract_form_data
\* ends by returning an AutoFillResponse record and raises nothing to its caller.
C1_ExtractionReturnsRecord ==
    /\ ~IsExc(svc_result)
    /\ (pc = "done" /\ ServiceCalled) => svc_result.t = "record"

C1_Witness ==
    /\ pc = "done"
    /\ failure = "LLMException"
    /\ calls = 1
    /\ svc_result.t = "record"

\* C2 as stated: every autofill request, whatever the session and the store, gives
\* the caller of ChatController.extract_form_data a record and never an error.
C2_AlwaysRecord == pc = "done" => ctl_result.t = "record"

\* C2 as amended: a request for a session with at least one stored message in a
\* readable store gives the caller a record; a session that is absent or has no
\* message gives SessionNotFoundException, an unreadable store DatabaseException.
C2_RecordWhenSessionHasMessages ==
    pc = "done" =>
        IF ~db_ok THEN ctl_result = Exc("DatabaseException")
        ELSE IF conversations[session] \in {NoConversation, <<>>}
        THEN ctl_result = Exc("SessionNotFoundException")
        ELSE ctl_result.t = "record"

C2_Witness ==
    /\ pc = "done"
    /\ db_ok
    /\ Len(conversations[session]) = 2
    /\ failure = "LLMException"
    /\ ctl_result.t = "record"

\* C3: when decoding fails or any step raises, the operation returns the fallback
\* record: every field absent except summary, which holds only callSummary, the
\* fixed placeholder "Unable to auto-fill. Please enter manually.".
C3_FallbackRecord ==
    (pc = "done" /\ failure # "none") =>
        /\ svc_result.t = "record"
        /\ \A f \in DOMAIN svc_result.v : f # "summary" => svc_result.v[f] = Null
        /\ svc_result.v["summary"].t = "obj"
        /\ DOMAIN svc_result.v["summary"].v = {"callSummary"}
        /\ svc_result.v["summary"].v["callSummary"]
             = Str("Unable to auto-fill. Please enter manually.")

C3_Witness ==
    /\ pc = "done"
    /\ failure = "JSONDecodeError"
    /\ path = "fallback"

\* C4: in every record returned, summary.callSummary is a string and is not empty.
C4_CallSummaryNonEmptyString ==
    svc_result.t = "record" =>
        LET cs == Get(svc_result.v["summary"], "callSummary")
        IN  cs.t = "str" /\ cs.v # ""

\* C5: in every record returned, gender, parish, livingSituation and region are each
\* absent or a member of the field's fixed vocabulary.
C5_EnumFieldsInVocabulary ==
    svc_result.t = "record" =>
        /\ OptionalLiteral(svc_result.v["gender"], VALID_GENDERS)
        /\ OptionalLiteral(svc_result.v["parish"], VALID_PARISHES)
        /\ OptionalLiteral(svc_result.v["livingSituation"], VALID_LIVING_SITUATIONS)
        /\ OptionalLiteral(svc_result.v["region"], VALID_REGIONS)

C5_Witness ==
    /\ path = "success"
    /\ Get(StatedChild, "gender") = Str("Boy")
    /\ svc_result.v["gender"] = Null

\* the mapping holds the 13 category keys, each with a list
AllCategoryLists(m) ==
    /\ m.t = "obj"
    /\ DOMAIN m.v = CATEGORY_KEYS
    /\ Cardinality(DOMAIN m.v) = 13
    /\ \A k \in DOMAIN m.v : m.v[k].t = "list"

\* C6 as stated: every record returned, the fallback included, maps all 13 category
\* keys to lists.
C6_AlwaysAllCategoryKeys ==
    svc_result.t = "record" => AllCategoryLists(svc_result.v["suggested_categories"])

\* C6 as amended: every record returned on the success path maps all 13 category
\* keys to lists (the empty list for a key the model omitted); the fallback record
\* has no category mapping.
C6_AllCategoryKeysOnSuccess ==
    /\ path = "success" => AllCategoryLists(svc_result.v["suggested_categories"])
    /\ path = "fallback" => svc_result.v["suggested_categories"] = Null

C6_Witness ==
    /\ path = "success"
    /\ "category" \notin DOMAIN data.v
    /\ svc_result.v["suggested_categories"].v["trafficking"] = List(<<>>)

\* C7: every string of every category list of the record is a member of the issue
\* vocabulary of that category.
C7_CategoryItemsInVocabulary ==
    path = "success" =>
        \A k \in DOMAIN svc_result.v["suggested_categories"].v :
            LET q == svc_result.v["suggested_categories"].v[k].v
            IN  \A i \in 1..Len(q) : q[i].v \in Category[k]

\* C8: summaryAccuracy, summaryFeedback and otherLocation are null in every record.
C8_ReservedFieldsNull ==
    svc_result.t = "record" =>
        \A f \in {"summaryAccuracy", "summaryFeedback", "otherLocation"} :
            Get(svc_result.v["summary"], f) = Null

\* C9: age is absent, a two-digit number "00" to "25", "Unborn", ">25" or "Unknown".
C9_AgeTwoDigitsOrSentinel ==
    svc_result.t = "record" =>
        OptionalLiteral(svc_result.v["age"],
            {"00", "01", "02", "03", "04", "05", "06", "07", "08", "09", "10", "11", "12",
             "13", "14", "15", "16", "17", "18", "19", "20", "21", "22", "23", "24", "25",
             "Unborn", ">25", "Unknown"})

\* inference has run on a normalized child without region and with parish p
InferredFrom(p) ==
    /\ child.t = "obj"
    /\ "region" \notin DOMAIN validated.v
    /\ Get(validated, "parish") = Str(p)

\* C10 as stated: with region absent after normalization, the inferred region is
\* "Cities" for Kingston and St. Andrew, "Rural areas" for Portland, St. Mary and
\* St. Elizabeth, "Town & semi-dense areas" for every other parish of the registry.
C10_RegionForEveryRegistryParish ==
    \A p \in VALID_PARISHES :
        InferredFrom(p) =>
            Get(child, "region") =
                Str(IF p \in {"Kingston", "St. Andrew"} THEN "Cities"
                    ELSE IF p \in {"Portland", "St. Mary", "St. Elizabeth"} THEN "Rural areas"
                    ELSE "Town & semi-dense areas")

\* C10 as amended: the same, except that for the registry member "Unknown" no
\* region is inferred.
C10_RegionForKnownParish ==
    \A p \in VALID_PARISHES :
        InferredFrom(p) =>
            Get(child, "region") =
                IF p \in {"Kingston", "St. Andrew"} THEN Str("Cities")
                ELSE IF p \in {"Portland", "St. Mary", "St. Elizabeth"} THEN Str("Rural areas")
                ELSE IF p = "Unknown" THEN Null
                ELSE Str("Town & semi-dense areas")

C10_Witness ==
    /\ InferredFrom("St. Thomas")
    /\ Get(child, "region") = Str("Town & semi-dense areas")

\* inference leaves every field but region and nationality as normalization gave it,
\* and the record of the success path holds the fields of the inferred child
InferenceFrame ==
    /\ \A f \in ChildFields \ {"region", "nationality"} :
          Get(child, f) = Get(validated, f)
    /\ path = "success" => \A f \in ChildFields : svc_result.v[f] = Get(child, f)

\* C11 as stated: when the normalized candidate has a region (a nationality), the
\* region (nationality) after inference, and in the record, equals it whatever the
\* parish; inference changes no field other than region and nationality.
C11_InferenceKeepsPresentFields ==
    child.t = "obj" =>
        /\ \A f \in {"region", "nationality"} \cap DOMAIN validated.v :
              Get(child, f) = validated.v[f]
        /\ InferenceFrame

\* C11 as amended: the same for a region (a nationality) that is a non-empty string
\* after normalization; a nationality normalized to the empty string is treated as
\* absent and replaced when the parish is known.
C11_InferenceKeepsNonEmptyFields ==
    child.t = "obj" =>
        /\ \A f \in {"region", "nationality"} :
              Truthy(Get(validated, f)) => Get(child, f) = Get(validated, f)
        /\ InferenceFrame

C11_Witness ==
    /\ path = "success"
    /\ Get(validated, "parish") = Str("Portland")
    /\ Get(validated, "region") = Str("Cities")
    /\ svc_result.v["region"] = Str("Cities")

\* the reply stated every field and the record returned holds exactly those values
RoundTrip ==
    /\ svc_result.t = "record"
    /\ \A f \in ChildFields : svc_result.v[f] = data.v["child"].v[f]
    /\ svc_result.v["suggested_categories"] = data.v["category"]
    /\ svc_result.v["summary"] = data.v["summary"]

\* C12: when the model echoes a well-formed reply holding one valid value for every
\* field, the record returned has every subject field, category list and summary
\* field equal to the value of the reply; no value is replaced by an inferred one.
C12_RoundTrip ==
    (pc = "done" /\ data \in CompleteReplies) => RoundTrip

\* the round trip for every complete reply whose age is not "00"
C12_RoundTripButAgeZero ==
    (pc = "done" /\ data \in CompleteReplies /\ data.v["child"].v["age"] # Str("00"))
        => RoundTrip

C12_RoundTripReached ==
    /\ pc = "done"
    /\ data \in CompleteReplies
    /\ data.v["child"].v["parish"] = Str("Portland")
    /\ svc_result.t = "record"
    /\ svc_result.v["region"] = Str("Cities")
    /\ svc_result.v["nationality"] = Str("Haitian")

\* the model invocation of handler r failed: the credentials are missing, the call
\* raised (transport error, timeout), or the response is empty (no choice, no
\* message, no content, or the empty string as content)
InvocationFailed(r) ==
    \/ req[r].completion.kind \in {"no_client", "transport", "no_choices"}
    \/ req[r].completion.kind = "content" /\ ~Truthy(req[r].completion.content)

\* C13: every failure of the model invocation during a chat turn reaches the caller
\* of process_chat_message as LLMException: the turn does not go on to a normal
\* chat response and no other error class is raised.
C13_ChatFailureIsLLMException ==
    \A r \in Requests :
        (req[r].op = "chat" /\ InvocationFailed(r)) =>
            /\ req[r].pc = "done"
            /\ req[r].result = Exc("LLMException")

\* the same for every failure but a content that is the empty string
C13_ChatFailureButEmptyText ==
    \A r \in Requests :
        (req[r].op = "chat" /\ InvocationFailed(r)
            /\ req[r].completion.content # Str("")) =>
            /\ req[r].pc = "done"
            /\ req[r].result = Exc("LLMException")

\* a chat turn whose completion had the empty string as content ended with a
\* normal response and an empty bot message in the store
C13_EmptyReplyReturned ==
    \E r \in Requests :
        /\ req[r].op = "chat"
        /\ req[r].completion.content = Str("")
        /\ req[r].result = ChatResponse("")
        /\ \E i \in 1..Len(conversations[req[r].sid]) :
              /\ conversations[req[r].sid][i].sender = "bot"
              /\ conversations[req[r].sid][i].message = ""

\* C14: every failure of the model invocation during summary generation reaches the
\* caller of ChatController.generate_summary as LLMException; no summary text is
\* returned for a failed invocation.  (Stated for missing credentials, a call that
\* raised, and a response without choice, message or content.)
C14_SummaryFailureIsLLMException ==
    \A r \in Requests :
        (req[r].op = "summary" /\ InvocationFailed(r)
            /\ req[r].completion.content # Str("")) =>
            /\ req[r].pc = "done"
            /\ req[r].result = Exc("LLMException")

\* a summary request whose model call raised ended with a normal response that
\* carries the placeholder text
C14_PlaceholderReturned ==
    \E r \in Requests :
        /\ req[r].op = "summary"
        /\ req[r].completion.kind = "transport"
        /\ req[r].result = SummaryResponse(SummaryPlaceholder)

\* the model replied and the reply went through the sanitizer
Replied == pc = "done" /\ calls = 1 /\ failure # "LLMException"

\* C15 as stated: a reply with no parseable JSON, a reply without any "{...}" span
\* included, gives the fallback record with the manual-entry placeholder.
C15_NoJsonGivesFallback ==
    (Replied /\ (~had_span \/ failure = "JSONDecodeError")) => svc_result = FallbackRecord

\* C15 as amended: a reply whose "{...}" span does not decode gives the fallback
\* record; a reply without such a span is read as the empty object and gives the
\* record of the success path with every default: no subject field, 13 empty
\* category lists, callSummary "Conversation in progress.", keepConfidential true.
C15_NoSpanGivesDefaults ==
    /\ (Replied /\ failure = "JSONDecodeError") => (had_span /\ svc_result = FallbackRecord)
    /\ (Replied /\ ~had_span) =>
          /\ path = "success"
          /\ svc_result =
                Record([f \in ResponseFields |->
                    CASE f = "suggested_categories" -> Obj([k \in CATEGORY_KEYS |-> List(<<>>)])
                      [] f = "summary" ->
                           Obj(("callSummary" :> Str("Conversation in progress."))
                               @@ ("keepConfidential" :> Bool("True")))
                      [] f = "metadata" -> EmptyObj
                      [] OTHER -> Null])

C15_Witness ==
    /\ Replied
    /\ ~had_span
    /\ data = EmptyObj
    /\ path = "success"

\* the reply states one subject field and nothing else: child = {f: x}
OnlyStated(f, x) ==
    /\ data.t = "obj"
    /\ DOMAIN data.v = {"child"}
    /\ data.v["child"].t = "obj"
    /\ DOMAIN data.v["child"].v = {f}
    /\ data.v["child"].v[f] = x

\* subject fields with a value the normalizer cannot accept
WrongValues ==
    {<<"gender", Num("5")>>, <<"gender", Str("Boy")>>,
     <<"age", Str("seven")>>, <<"age", Num("30")>>,
     <<"vulnerableGroups", List(<<List(<<>>)>>)>>,
     <<"vulnerableGroups", List(<<Str("bogus")>>)>>}

\* C16: the normalizer raises for no raw value: a candidate whose subject field holds
\* an unacceptable or wrong-typed value (gender 5, age "seven" or 30, a non-string
\* in vulnerableGroups) gives a record of the success path with that field absent,
\* not the fallback record.
C16_WrongValueIsDropped ==
    \A w \in WrongValues :
        (pc = "done" /\ OnlyStated(w[1], w[2])) =>
            /\ path = "success"
            /\ svc_result.v[w[1]] = Null

\* the same for the values that are strings outside the vocabulary of an enum or a
\* list of such strings
C16_UnknownStringIsDropped ==
    \A w \in {<<"gender", Str("Boy")>>, <<"vulnerableGroups", List(<<Str("bogus")>>)>>} :
        (pc = "done" /\ OnlyStated(w[1], w[2])) =>
            /\ path = "success"
            /\ svc_result.v[w[1]] = Null

\* gender 5 ended in the fallback record, through the AttributeError of value.lower()
C16_FallbackReached ==
    /\ pc = "done"
    /\ OnlyStated("gender", Num("5"))
    /\ failure = "AttributeError"
    /\ svc_result = FallbackRecord

\* the age the claim asks for, on the ages of the model: the two-digit form of an
\* integer in 0..25, a sentinel as it is, absence otherwise
TwoDigitOrAbsent(age) ==
    CASE age \in {Str("07"), Str("7"), Num("7")} -> Str("07")
      [] age \in {Str("0"), Str("00"), Num("0")} -> Str("00")
      [] age = Str(" 14 ") -> Str("14")
      [] age = Str("25") -> Str("25")
      [] age = Str("Unborn") -> Str("Unborn")
      [] OTHER -> Null

\* C17: the age normalizer gives the two-digit zero-padded string for every value
\* reducible to an integer in [0, 25] ("7" gives "07", "14" gives "14"), gives the
\* sentinels "Unborn", ">25" and "Unknown" unchanged, and gives absence otherwise.
C17_AgeTwoDigitPadded ==
    (validated.t = "obj" /\ StatedChild.t = "obj") =>
        Get(validated, "age") = TwoDigitOrAbsent(Get(StatedChild, "age"))

\* the same for the ages that already have the form asked for
C17_AgeKeptWhenWellFormed ==
    (validated.t = "obj" /\ StatedChild.t = "obj"
        /\ Get(StatedChild, "age") \in {Null, Str("07"), Str("00"), Str("Unborn")}) =>
        Get(validated, "age") = TwoDigitOrAbsent(Get(StatedChild, "age"))

\* the age "7" left the normalizer as "7"
C17_UnpaddedReached ==
    /\ validated.t = "obj"
    /\ Get(StatedChild, "age") = Str("7")
    /\ Get(validated, "age") = Str("7")

\* the vocabulary of an enum field of the subject
VocabularyOf(f) ==
    CASE f = "gender" -> VALID_GENDERS
      [] f = "parish" -> VALID_PARISHES
      [] OTHER -> VALID_REGIONS

\* C18: for a string value of gender, parish or region the normalizer gives the value
\* itself when it is in the vocabulary, else the one member equal to it ignoring
\* case (in the casing of the vocabulary), else absence.  No two members are equal
\* ignoring case, so the order of iteration cannot matter, and the result is absent
\* or a member.
C18_EnumExactThenCaseInsensitive ==
    /\ pc = "idle" =>
          \A f \in {"gender", "parish", "region"} :
              \A w1, w2 \in VocabularyOf(f) : Lower(w1) = Lower(w2) => w1 = w2
    /\ (validated.t = "obj" /\ StatedChild.t = "obj") =>
        \A f \in {"gender", "parish", "region"} :
            LET x    == Get(StatedChild, f)
                V    == VocabularyOf(f)
                same == IF x.t = "str" THEN {w \in V : Lower(w) = Lower(x.v)} ELSE {}
            IN  x.t = "str" =>
                    /\ Cardinality(same) <= 1
                    /\ x.v \in V => Get(validated, f) = x
                    /\ (x.v \notin V /\ same # {}) =>
                          \E w \in same : Get(validated, f) = Str(w)
                    /\ (x.v \notin V /\ same = {}) => Get(validated, f) = Null
                    /\ OptionalLiteral(Get(validated, f), V)

C18_Witness ==
    /\ validated.t = "obj"
    /\ Get(StatedChild, "region") = Str("rural areas")
    /\ Get(validated, "region") = Str("Rural areas")
    /\ Get(StatedChild, "parish") = Str("Atlantis")
    /\ Get(validated, "parish") = Null

\* C19: vulnerableGroups of the record is absent or a non-empty list of members of
\* the 10-value vocabulary, in the order of the candidate; a list that filtering
\* leaves empty gives absence, never the empty list, whereas a category list that
\* filtering leaves empty is the empty list, never absent.
C19_EmptiedListDefaults ==
    path = "success" =>
        LET vg   == svc_result.v["vulnerableGroups"]
            raw  == Get(StatedChild, "vulnerableGroups")
            kept == IF raw.t = "list"
                    THEN SelectSeq(raw.v, LAMBDA e :
                            e.t = "str" /\ e.v \in VALID_VULNERABLE_GROUPS)
                    ELSE <<>>
            cats == svc_result.v["suggested_categories"]
        IN  /\ Cardinality(VALID_VULNERABLE_GROUPS) = 10
            /\ vg = IF kept = <<>> THEN Null ELSE List(kept)
            /\ vg # List(<<>>)
            /\ \A k \in CATEGORY_KEYS :
                  LET rawc == Get(Section(data, "category"), k)
                  IN  /\ cats.v[k].t = "list"
                      /\ (rawc.t = "list" /\ \A i \in 1..Len(rawc.v) :
                              ~(rawc.v[i].t = "str" /\ Strip(rawc.v[i].v) # ""))
                            => cats.v[k] = List(<<>>)

\* vulnerableGroups in the order of the candidate, the unknown string dropped
C19_OrderKept ==
    /\ path = "success"
    /\ Get(StatedChild, "vulnerableGroups")
         = List(<<Str("Other"), Str("bogus"), Str("Child with disability")>>)
    /\ svc_result.v["vulnerableGroups"]
         = List(<<Str("Other"), Str("Child with disability")>>)

C19_Witness ==
    /\ path = "success"
    /\ Get(StatedChild, "vulnerableGroups") = List(<<Str("bogus")>>)
    /\ svc_result.v["vulnerableGroups"] = Null
    /\ Get(Section(data, "category"), "violence") = List(<<Str(" "), Num("5")>>)
    /\ svc_result.v["suggested_categories"].v["violence"] = List(<<>>)

\* the parish is known after normalization: a registry parish other than "Unknown"
ParishKnown ==
    /\ Get(validated, "parish") # Null
    /\ Get(validated, "parish").v \in VALID_PARISHES \ {"Unknown"}

\* what C20 says of inference besides the condition on nationality: a parish that
\* normalizes to absence leaves the child as normalization gave it, and the parish
\* "PORTLAND" gives the region and the parish of "Portland"
InferenceReadsNormalized ==
    /\ Get(validated, "parish") = Null => child = validated
    /\ Get(StatedChild, "parish") = Str("PORTLAND") =>
          /\ Get(child, "parish") = Str("Portland")
          /\ "region" \notin DOMAIN validated.v => Get(child, "region") = Str("Rural areas")

\* C20 as stated: nationality is inferred exactly when, after normalization, the
\* parish is known and the nationality is absent; the inferred value is
\* "Jamaican(Assumed)"; inference reads normalized fields only.
C20_InferredIffNationalityAbsent ==
    child.t = "obj" =>
        /\ IF ParishKnown /\ "nationality" \notin DOMAIN validated.v
           THEN Get(child, "nationality") = Str("Jamaican(Assumed)")
           ELSE Get(child, "nationality") = Get(validated, "nationality")
        /\ InferenceReadsNormalized

\* C20 as amended: the same, with a nationality that normalization left as the
\* empty string counted as absent.
C20_InferredIffNationalityEmpty ==
    child.t = "obj" =>
        /\ IF ParishKnown /\ ~Truthy(Get(validated, "nationality"))
           THEN Get(child, "nationality") = Str("Jamaican(Assumed)")
           ELSE Get(child, "nationality") = Get(validated, "nationality")
        /\ InferenceReadsNormalized

C20_Witness ==
    /\ path = "success"
    /\ DOMAIN StatedChild.v = {"parish"}
    /\ Get(StatedChild, "parish") = Str("PORTLAND")
    /\ svc_result.v["parish"] = Str("Portland")
    /\ svc_result.v["nationality"] = Str("Jamaican(Assumed)")
    /\ svc_result.v["region"] = Str("Rural areas")

----------------------------------------------------------------------------
\* the part of the text q from its first "{" to its last "}"
FirstToLast(q) ==
    LET i == CHOOSE i \in 1..Len(q) : q[i] = "{" /\ \A k \in 1..Len(q) : q[k] = "{" => i <= k
        j == CHOOSE j \in 1..Len(q) : q[j] = "}" /\ \A k \in 1..Len(q) : q[k] = "}" => k <= j
    IN  [k \in 1..(j - i + 1) |-> q[i + k - 1]]

\* the sanitizer as three cases: the trimmed reply when it starts with "{", else
\* the span, else the empty object
SanitizerByCases(raw) ==
    LET t == StripText(raw)
    IN  IF t # <<>> /\ t[1] = "{" THEN t
        ELSE IF HasSpan(t) THEN FirstToLast(t)
        ELSE <<"{", "}">>

\* C21: the sanitizer returns the trimmed reply unchanged when it starts with
\* "{"; otherwise, when the reply holds a "{" followed later by a "}", the span
\* from the first "{" to the last "}"; otherwise the text "{}".
C21_TrimmedReplyWhenStartsWithBrace ==
    [][pc = "sanitize" /\ pc' = "parse" => json_str' = SanitizerByCases(raw_response)]_vars

\* C21, amended: whatever the trimmed reply starts with, the sanitizer returns
\* the span from the first "{" to the last "}" when the reply holds a "{"
\* followed later by a "}" (the text after the last "}" is cut off), and the
\* text "{}" otherwise (also for a reply that starts with "{" and has no "}").
C21_SpanElseEmptyObject ==
    [][pc = "sanitize" /\ pc' = "parse" =>
          LET t == StripText(raw_response)
          IN  json_str' = IF HasSpan(t) THEN FirstToLast(t) ELSE <<"{", "}">>]_vars

\* C21: a span with members was cut out of a reply
C21_SpanCut ==
    pc = "parse" /\ had_span /\ Len(json_str) = MaxReplyLen /\ HasMembers(json_str)

----------------------------------------------------------------------------
\* C22: the transcript has one line per stored message, in stored order; a
\* message of the counselor side (the bot reply the chat flow stores with sender
\* "bot") is labelled COUNSELOR and a message of the caller (sender "user") CHILD.
C22_BotReplyLabelledCounselor ==
    conversation_text # <<>> =>
        /\ Len(conversation_text) = Len(messages)
        /\ \A i \in 1..Len(messages) :
              /\ conversation_text[i].text = messages[i].message
              /\ conversation_text[i].speaker =
                     IF messages[i].sender = "user" THEN "CHILD" ELSE "COUNSELOR"

----------------------------------------------------------------------------
\* C23: the absence of the credentials is detected when the service is
\* constructed; no request reaches the model invocation without a client.
C23_NoRequestInvokesWithoutClient ==
    pc = "invoke" => client = "configured"

----------------------------------------------------------------------------
\* the stages of extract_form_data in their order (the transcript and the prompt
\* are one step), from the call of the service to its return
StageOrder ==
    {<<"idle", "format">>, <<"format", "invoke">>, <<"invoke", "sanitize">>,
     <<"sanitize", "parse">>, <<"parse", "validate">>, <<"validate", "infer">>,
     <<"infer", "assemble">>, <<"assemble", "done">>}

\* C24: a run of extract_form_data invokes the model at most once, and only at
\* the invoke stage; the stages run in the order format, prompt, invoke,
\* sanitize, parse, normalize, infer, assemble; after a failed invocation, parse
\* or normalization the run ends with the fallback record and no further call.
C24_OneInvocationFixedOrder ==
    [][/\ calls' <= 1
       /\ calls' # calls => pc = "invoke" /\ calls' = calls + 1
       /\ pc' # pc =>
             \/ /\ <<pc, pc'>> \in StageOrder
                /\ failure' = "none" \/ pc = "assemble"
             \/ /\ pc = "idle" /\ pc' = "done" /\ IsExc(ctl_result') /\ calls' = 0
             \/ /\ pc \in {"invoke", "parse", "validate"}
                /\ pc' = "done"
                /\ failure' # "none"
                /\ svc_result' = FallbackRecord
       /\ failure' # "none" => pc' = "done" /\ svc_result' = FallbackRecord]_vars

\* C24: a reply that does not parse ended the run with the fallback record after
\* one call
C24_FallbackAfterOneCall ==
    /\ pc = "done"
    /\ calls = 1
    /\ failure = "JSONDecodeError"
    /\ svc_result = FallbackRecord

----------------------------------------------------------------------------
(* Properties of the store under concurrent handlers *)

\* handler r is between the read of the document and the end of its write
Writing(r) == req[r].pc \in {"open_user", "open_bot", "write_user", "write_bot"}

\* the messages stored for session sid
Stored(sid) == IF conversations[sid] = NoConversation THEN <<>> ELSE conversations[sid]

\* the places of message m in the stored transcript of session sid
Places(m, sid) == {i \in 1..Len(Stored(sid)) : Stored(sid)[i] = m}

UserMessage(r) == NewMessage(r, "user", req[r].message)
BotMessage(r) == NewMessage(r, "bot", req[r].text)

\* the chat turn of handler r has completed the append of its user message
UserAppended(r) ==
    /\ req[r].op = "chat"
    /\ \/ req[r].pc \in {"invoke", "lock_bot", "open_bot", "write_bot"}
       \/ req[r].pc = "done" /\ req[r].result # Exc("DatabaseException")

\* the chat turn of handler r has completed the append of its bot message
BotAppended(r) ==
    /\ req[r].op = "chat"
    /\ req[r].pc = "done"
    /\ req[r].result = ChatResponse(req[r].text)

\* C25: the writers are mutually exclusive over their read-modify-write: never
\* are two of them between the read of the document and its write, and every
\* message whose append has completed is in the store, once (no lost update).
C25_WritersExclusiveNoLostUpdate ==
    /\ \A r1, r2 \in Requests : Writing(r1) /\ Writing(r2) => r1 = r2
    /\ \A r \in Requests : Writing(r) <=> r \in lock
    /\ \A r \in Requests :
          /\ UserAppended(r) => Cardinality(Places(UserMessage(r), req[r].sid)) = 1
          /\ BotAppended(r) => Cardinality(Places(BotMessage(r), req[r].sid)) = 1

\* C25: two chat turns on one session ran interleaved (each stored its user
\* message before the other stored its reply) and all four messages are there
C25_InterleavedTurnsStored ==
    \E r1, r2 \in Requests :
        /\ r1 # r2
        /\ req[r1].sid = req[r2].sid
        /\ BotAppended(r1) /\ BotAppended(r2)
        /\ \E u1 \in Places(UserMessage(r1), req[r1].sid),
              u2 \in Places(UserMessage(r2), req[r2].sid),
              b1 \in Places(BotMessage(r1), req[r1].sid),
              b2 \in Places(BotMessage(r2), req[r2].sid) : u1 < b2 /\ u2 < b1

\* C26: over every interleaving of chat turns, extraction requests and summary
\* requests the stored transcript of a session changes only by one message
\* appended at its end (no stored message is removed, changed or moved), and
\* only a step of a chat turn changes the store.
C26_TranscriptAppendOnly ==
    [][/\ \A s \in Sessions :
             \/ conversations'[s] = conversations[s]
             \/ /\ conversations'[s] # NoConversation
                /\ Len(conversations'[s]) = Len(MessagesOf(conversations[s])) + 1
                /\ SubSeq(conversations'[s], 1, Len(MessagesOf(conversations[s])))
                      = MessagesOf(conversations[s])
       /\ \A r \in Requests :
             (req[r].op \in {"extract", "summary"} \/ req'[r].op \in {"extract", "summary"})
                 /\ req'[r] # req[r] => conversations' = conversations
       /\ conversations' # conversations =>
             \E r \in Requests : req[r].op = "chat" /\ req[r].pc \in {"write_user", "write_bot"}
                                    /\ req'[r].pc # req[r].pc]_vars

\* C26: a chat turn has appended its two messages to a transcript that held
\* messages, and a summary or extraction request on the session has returned
C26_AppendedAfterStored ==
    \E r1, r2 \in Requests :
        /\ BotAppended(r1)
        /\ Len(Stored(req[r1].sid)) >= 4
        /\ req[r2].op \in {"extract", "summary"}
        /\ req[r2].sid = req[r1].sid
        /\ req[r2].pc = "done"
        /\ ~IsExc(req[r2].result)

\* C28: a read of the store that runs while a writer is at work sees the whole
\* document, as it was before the write or as it is after it: no request ends
\* with a database error when the database file is intact.
C28_ReadNeverFailsByConcurrentWrite ==
    \A r \in Requests :
        (req[r].pc = "done" /\ req[r].result = Exc("DatabaseException")) => ~db_ok

\* C29: under every interleaving of chat turns on a session, the history a turn
\* passes to the model holds every message that lies before the turn's user
\* message in the stored transcript, and the turn's bot reply is stored after
\* its user message.
C29_HistoryHoldsEarlierMessages ==
    \A r \in Requests :
        /\ (req[r].op = "chat" /\ req[r].pc = "invoke") =>
              \A u \in Places(UserMessage(r), req[r].sid) :
                  \A i \in 1..(u - 1) :
                      \E j \in 1..Len(req[r].messages) :
                          req[r].messages[j] = Stored(req[r].sid)[i]
        /\ BotAppended(r) =>
              \A u \in Places(UserMessage(r), req[r].sid),
                 b \in Places(BotMessage(r), req[r].sid) : u < b

\* the chat turn of handler r ended with the error of a failed model invocation
TurnFailedAtModel(r) ==
    /\ req[r].op = "chat"
    /\ req[r].pc = "done"
    /\ req[r].result = Exc("LLMException")

\* the store holds the user message of turn r once and no bot message of it
UserMessageKept(r) ==
    /\ Cardinality(Places(UserMessage(r), req[r].sid)) = 1
    /\ \A i \in 1..Len(Stored(req[r].sid)) :
          Stored(req[r].sid)[i].id # NewMessage(r, "bot", "").id

\* C30: when the model invocation of a chat turn fails the turn is not rolled
\* back: the error is raised with the user message of the turn stored, as the
\* last message of the session, and with no bot message of the turn stored.
C30_FailedTurnUserMessageLast ==
    \A r \in Requests :
        TurnFailedAtModel(r) =>
            /\ UserMessageKept(r)
            /\ Stored(req[r].sid)[Len(Stored(req[r].sid))] = UserMessage(r)

\* C30, amended: when the model invocation of a chat turn fails the turn is not
\* rolled back: the error is raised with the user message of the turn stored
\* and with no bot message of the turn stored; the user message is the last
\* message of the session unless other turns have stored messages after it.
C30_FailedTurnKeepsUserMessage ==
    \A r \in Requests :
        TurnFailedAtModel(r) =>
            /\ UserMessageKept(r)
            /\ \A u \in Places(UserMessage(r), req[r].sid) :
                  \A i \in (u + 1)..Len(Stored(req[r].sid)) :
                      \E q \in Requests \ {r} :
                          Stored(req[r].sid)[i] \in {UserMessage(q), BotMessage(q)}

\* C30: a chat turn whose model call failed in transport left its user message
\* as the last message of a session that held messages before
C30_UserMessageLeftAfterFailure ==
    \E r \in Requests :
        /\ TurnFailedAtModel(r)
        /\ req[r].completion.kind = "transport"
        /\ Len(Stored(req[r].sid)) >= 3
        /\ Stored(req[r].sid)[Len(Stored(req[r].sid))] = UserMessage(r)

----------------------------------------------------------------------------
\* C27: submit_form for a request with well-formed form data (child, category
\* and summary given), the database intact, stores a submission with status
\* "submitted" under the session of the request and returns success with the
\* generated submission id.
C27_SubmitStoresAndReturnsSuccess ==
    \A r \in Requests :
        (form_req[r].op = "submit" /\ form_req[r].pc = "done" /\ db_ok) =>
            /\ form_req[r].result = FormSubmissionResponse(SubmissionId(r))
            /\ form_submissions[form_req[r].sid].status = "submitted"
            /\ form_submissions[form_req[r].sid].sessionId = form_req[r].sid

====
